---------------------------- MODULE Spec2Model ----------------------------
(***************************************************************************)
(* Model of .github/workflows/diff-shps.py: the batch loop over dataset    *)
(* stems (download, load_features, difflib.SequenceMatcher alignment,      *)
(* opcode classification, combined_bboxes, SVG rendering, temp directory   *)
(* removal).  Indices are 0-based as in the Python code; a Python a[i] is  *)
(* a[i+1] here.                                                            *)
(***************************************************************************)
EXTENDS Integers, Sequences, FiniteSets, TLC

VARIABLES
    nstems,          \* len(list_compare_stems(os.environ)); stems are 1..nstems
    idx,             \* position of the for loop of line 217 (0 before the first stem)
    pc,              \* next statement of __main__
    err,             \* the uncaught exception that ended the script, or "none"
    shp_common,      \* a ".shp" path is in base_files.keys() & head_files.keys()
    tempdir,         \* the name tempfile.mkdtemp() returned (0: not yet bound)
    fs,              \* temporary directories on disk -> their base.shp / head.shp
    base_shp_path,   \* directory of the path bound to base_shp_path (0: unbound name)
    head_shp_path,   \* directory of the path bound to head_shp_path (0: unbound name)
    opened,          \* directory of the path handed to load_features for this stem (0: none)
    base_data,
    head_data,
    opcodes,         \* matcher.get_opcodes()
    diff_lines,
    add_features,
    rm_features,
    svg,             \* stem -> draw operations written to <stem>.svg
    comment_lines

vars == <<nstems, idx, pc, err, shp_common, tempdir, fs, base_shp_path,
          head_shp_path, opened, base_data, head_data, opcodes, diff_lines,
          add_features, rm_features, svg, comment_lines>>

---------------------------------------------------------------------------
(* Bounds *)

\* stems in one batch
MaxStems == 2
\* features per .shp file in the batch specification
MaxLen == 2
\* features per .shp file in the single-dataset specification
AlignLen == 3
\* length of the bulk head datasets (one feature repeated)
BigLen == 200

---------------------------------------------------------------------------
(* Data *)

\* raw features as the OGR layer yields them (GeoJSON geometry + envelope)
RawPoint ==
    [properties |-> <<<<"name", "p">>>>, type |-> "Point",
     envelope |-> <<3, 3, 4, 4>>, coordinates |-> <<3, 4>>]
RawPolygon ==
    [properties |-> <<<<"name", "q">>>>, type |-> "Polygon",
     envelope |-> <<0, 2, 0, 2>>,
     coordinates |-> << << <<0, 0>>, <<2, 0>>, <<2, 2>>, <<0, 0>> >> >>]
RawLine ==
    [properties |-> <<<<"name", "l">>>>, type |-> "LineString",
     envelope |-> <<1, 5, 1, 6>>, coordinates |-> << <<1, 1>>, <<5, 6>> >>]
RawCollection ==
    [properties |-> <<<<"name", "c">>>>, type |-> "GeometryCollection",
     envelope |-> <<0, 1, 0, 1>>, coordinates |-> <<>>]

SupportedRaw == {RawPoint, RawLine, RawPolygon}
AllRaw == SupportedRaw \cup {RawCollection}

RECURSIVE SeqsUpTo(_, _)
SeqsUpTo(S, n) ==
    IF n = 0 THEN {<<>>}
    ELSE LET shorter == SeqsUpTo(S, n - 1)
         IN shorter \cup {Append(s, x) : s \in {t \in shorter : Len(t) = n - 1}, x \in S}

Repeat(x, n) == [k \in 1..n |-> x]

\* class Point
Point(xy) == [x |-> xy[1], y |-> xy[2]]

GeometryTypes == {"Point", "MultiPoint", "LineString", "MultiLineString",
                  "Polygon", "MultiPolygon"}

\* unspooled_coordinates: "ValueError" stands for the raise of line 131
unspooled_coordinates(geometry) ==
    LET c == geometry.coordinates IN
    CASE geometry.type = "Point" -> Point(c)
      [] geometry.type \in {"MultiPoint", "LineString"} ->
            [k \in DOMAIN c |-> Point(c[k])]
      [] geometry.type \in {"MultiLineString", "Polygon"} ->
            [k \in DOMAIN c |-> [l \in DOMAIN c[k] |-> Point(c[k][l])]]
      [] geometry.type = "MultiPolygon" ->
            [k \in DOMAIN c |-> [l \in DOMAIN c[k] |->
                [m \in DOMAIN c[k][l] |-> Point(c[k][l][m])]]]
      [] OTHER -> "ValueError"

\* Feature(properties, Geometry(type, bbox, coordinates)) of lines 146-153
Feature(raw) ==
    [properties |-> raw.properties,
     geometry |-> [type |-> raw.type, bbox |-> raw.envelope,
                   coordinates |-> unspooled_coordinates(raw)]]

\* load_features: the loop of lines 141-153 raises at the first feature whose
\* geometry type unspooled_coordinates does not know
load_features(layer) ==
    IF \E k \in DOMAIN layer : layer[k].type \notin GeometryTypes
    THEN [ok |-> FALSE, features |-> <<>>]
    ELSE [ok |-> TRUE, features |-> [k \in DOMAIN layer |-> Feature(layer[k])]]

---------------------------------------------------------------------------
(* difflib.SequenceMatcher(isjunk=None, a, b), autojunk left at its default *)

\* SequenceMatcher.__chain_b: autojunk applies when len(b) >= 200
AutojunkMinLen == 200

\* the members of a set of integers in ascending order
SortedSeq(S) ==
    [k \in 1..Cardinality(S) |->
        CHOOSE x \in S : Cardinality({y \in S : y < x}) = k - 1]

Range(s) == {s[k] : k \in DOMAIN s}

\* __chain_b: b2j maps each element of b to its indices; with isjunk None the
\* junk set is empty; elements occurring more than len(b)//100 + 1 times in a
\* b of 200 or more elements are "popular" and lose their b2j entry
chain_b(b) ==
    LET n == Len(b)
        ntest == (n \div 100) + 1
        idxs(elt) == {j \in 0..(n - 1) : b[j + 1] = elt}
        popular == IF n >= AutojunkMinLen
                   THEN {elt \in Range(b) : Cardinality(idxs(elt)) > ntest}
                   ELSE {}
    IN [elt \in Range(b) \ popular |-> SortedSeq(idxs(elt))]

bjunk == {}

B2JGet(b2j, x) == IF x \in DOMAIN b2j THEN b2j[x] ELSE <<>>
J2LenGet(j2len, j) == IF j \in DOMAIN j2len THEN j2len[j] ELSE 0

\* the inner for loop of find_longest_match over b2j[a[i]]
RECURSIVE InnerScan(_, _, _, _, _, _, _)
InnerScan(js, p, i, blo, bhi, j2len, st) ==
    IF p > Len(js) THEN st
    ELSE LET j == js[p] IN
         IF j < blo THEN InnerScan(js, p + 1, i, blo, bhi, j2len, st)
         ELSE IF j >= bhi THEN st
         ELSE LET k == J2LenGet(j2len, j - 1) + 1
                  st1 == [newj2len |-> (j :> k) @@ st.newj2len,
                          best |-> IF k > st.best[3]
                                   THEN <<i - k + 1, j - k + 1, k>>
                                   ELSE st.best]
              IN InnerScan(js, p + 1, i, blo, bhi, j2len, st1)

\* the outer for loop of find_longest_match over range(alo, ahi)
RECURSIVE OuterScan(_, _, _, _, _, _, _, _)
OuterScan(a, b2j, i, ahi, blo, bhi, j2len, best) ==
    IF i >= ahi THEN best
    ELSE LET st == InnerScan(B2JGet(b2j, a[i + 1]), 1, i, blo, bhi, j2len,
                             [newj2len |-> <<>>, best |-> best])
         IN OuterScan(a, b2j, i + 1, ahi, blo, bhi, st.newj2len, st.best)

\* the while loops that extend the best block to the left
RECURSIVE ExtendLeft(_, _, _, _, _, _)
ExtendLeft(a, b, alo, blo, best, junk) ==
    IF /\ best[1] > alo
       /\ best[2] > blo
       /\ (b[best[2]] \in bjunk) = junk
       /\ a[best[1]] = b[best[2]]
    THEN ExtendLeft(a, b, alo, blo, <<best[1] - 1, best[2] - 1, best[3] + 1>>, junk)
    ELSE best

\* the while loops that extend the best block to the right
RECURSIVE ExtendRight(_, _, _, _, _, _)
ExtendRight(a, b, ahi, bhi, best, junk) ==
    IF /\ best[1] + best[3] < ahi
       /\ best[2] + best[3] < bhi
       /\ (b[best[2] + best[3] + 1] \in bjunk) = junk
       /\ a[best[1] + best[3] + 1] = b[best[2] + best[3] + 1]
    THEN ExtendRight(a, b, ahi, bhi, <<best[1], best[2], best[3] + 1>>, junk)
    ELSE best

find_longest_match(a, b, b2j, alo, ahi, blo, bhi) ==
    LET scanned == OuterScan(a, b2j, alo, ahi, blo, bhi, <<>>, <<alo, blo, 0>>)
        e1 == ExtendLeft(a, b, alo, blo, scanned, FALSE)
        e2 == ExtendRight(a, b, ahi, bhi, e1, FALSE)
        e3 == ExtendLeft(a, b, alo, blo, e2, TRUE)
    IN ExtendRight(a, b, ahi, bhi, e3, TRUE)

\* the queue loop of get_matching_blocks: every block found, in any order
RECURSIVE CollectBlocks(_, _, _, _, _, _, _)
CollectBlocks(a, b, b2j, alo, ahi, blo, bhi) ==
    LET x == find_longest_match(a, b, b2j, alo, ahi, blo, bhi)
        i == x[1]
        j == x[2]
        k == x[3]
    IN IF k = 0 THEN {}
       ELSE {x}
            \cup (IF alo < i /\ blo < j
                  THEN CollectBlocks(a, b, b2j, alo, i, blo, j) ELSE {})
            \cup (IF i + k < ahi /\ j + k < bhi
                  THEN CollectBlocks(a, b, b2j, i + k, ahi, j + k, bhi) ELSE {})

\* Python's tuple order on integer tuples of equal length
RECURSIVE TupleLess(_, _, _)
TupleLess(s, t, k) ==
    IF k > Len(s) THEN FALSE
    ELSE IF s[k] # t[k] THEN s[k] < t[k]
    ELSE TupleLess(s, t, k + 1)

\* matching_blocks.sort()
RECURSIVE SortBlocks(_)
SortBlocks(S) ==
    IF S = {} THEN <<>>
    ELSE LET m == CHOOSE x \in S : \A y \in S \ {x} : TupleLess(x, y, 1)
         IN <<m>> \o SortBlocks(S \ {m})

\* the loop of get_matching_blocks that collapses adjacent blocks
RECURSIVE Collapse(_, _, _, _)
Collapse(blocks, p, cur, out) ==
    IF p > Len(blocks)
    THEN IF cur[3] # 0 THEN Append(out, cur) ELSE out
    ELSE LET nxt == blocks[p] IN
         IF cur[1] + cur[3] = nxt[1] /\ cur[2] + cur[3] = nxt[2]
         THEN Collapse(blocks, p + 1, <<cur[1], cur[2], cur[3] + nxt[3]>>, out)
         ELSE Collapse(blocks, p + 1, nxt,
                       IF cur[3] # 0 THEN Append(out, cur) ELSE out)

get_matching_blocks(a, b) ==
    LET la == Len(a)
        lb == Len(b)
        found == CollectBlocks(a, b, chain_b(b), 0, la, 0, lb)
    IN Append(Collapse(SortBlocks(found), 1, <<0, 0, 0>>, <<>>), <<la, lb, 0>>)

\* get_opcodes without its "elif i < ai" branch: a base-only gap yields no opcode
OpcodesOfBlockNoDelete(i, j, blk) ==
    LET ai == blk[1]
        bj == blk[2]
        size == blk[3]
        tag == IF i < ai /\ j < bj THEN "replace"
               ELSE IF j < bj THEN "insert"
               ELSE ""
    IN (IF tag # "" THEN << <<tag, i, ai, j, bj>> >> ELSE <<>>)
       \o (IF size # 0 THEN << <<"equal", ai, ai + size, bj, bj + size>> >> ELSE <<>>)

\* get_opcodes reporting a two-sided gap as a delete followed by an insert
OpcodesOfBlockSplit(i, j, blk) ==
    LET ai == blk[1]
        bj == blk[2]
        size == blk[3]
    IN (IF i < ai THEN << <<"delete", i, ai, j, j>> >> ELSE <<>>)
       \o (IF j < bj THEN << <<"insert", ai, ai, j, bj>> >> ELSE <<>>)
       \o (IF size # 0 THEN << <<"equal", ai, ai + size, bj, bj + size>> >> ELSE <<>>)

\* the body of the for loop of get_opcodes for one matching block
OpcodesOfBlock(i, j, blk) ==
    LET ai == blk[1]
        bj == blk[2]
        size == blk[3]
        tag == IF i < ai /\ j < bj THEN "replace"
               ELSE IF i < ai THEN "delete"
               ELSE IF j < bj THEN "insert"
               ELSE ""
    IN (IF tag # "" THEN << <<tag, i, ai, j, bj>> >> ELSE <<>>)
       \o (IF size # 0 THEN << <<"equal", ai, ai + size, bj, bj + size>> >> ELSE <<>>)

RECURSIVE OpcodesFrom(_, _, _, _)
OpcodesFrom(blocks, p, i, j) ==
    IF p > Len(blocks) THEN <<>>
    ELSE OpcodesOfBlock(i, j, blocks[p])
         \o OpcodesFrom(blocks, p + 1, blocks[p][1] + blocks[p][3],
                        blocks[p][2] + blocks[p][3])

get_opcodes(a, b) == OpcodesFrom(get_matching_blocks(a, b), 1, 0, 0)


---------------------------------------------------------------------------
(* __main__: classification of the opcodes, lines 251-267 *)

\* Python's string order on the four tags
TagRank(tag) ==
    CASE tag = "delete" -> 1
      [] tag = "equal" -> 2
      [] tag = "insert" -> 3
      [] tag = "replace" -> 4

\* Python's order on the (tag, i1, i2, j1, j2) tuples
OpcodeLess(s, t) ==
    IF s[1] # t[1] THEN TagRank(s[1]) < TagRank(t[1])
    ELSE TupleLess(SubSeq(s, 2, 5), SubSeq(t, 2, 5), 1)

RECURSIVE SortOpcodes(_)
SortOpcodes(S) ==
    IF S = {} THEN <<>>
    ELSE LET m == CHOOSE x \in S : \A y \in S \ {x} : OpcodeLess(x, y)
         IN <<m>> \o SortOpcodes(S \ {m})

\* sorted(matcher.get_opcodes()) of line 253 (the opcodes of one list are distinct)
sorted(ops) == SortOpcodes(Range(ops))

\* a[lo:hi]
Slice(a, lo, hi) == SubSeq(a, lo + 1, hi)

\* the body of the for loop of lines 253-267 for one opcode
ClassifyOne(op, base, head, acc) ==
    LET tag == op[1]
        i1 == op[2]
        i2 == op[3]
        j1 == op[4]
        j2 == op[5]
    IN CASE tag = "delete" ->
              [diff_lines |-> Append(acc.diff_lines, <<"Delete old feature", i1 + 1>>),
               add_features |-> acc.add_features,
               rm_features |-> acc.rm_features \o Slice(base, i1, i2)]
         [] tag = "insert" ->
              [diff_lines |-> Append(acc.diff_lines, <<"Add new feature", j1 + 1>>),
               add_features |-> acc.add_features \o Slice(head, j1, j2),
               rm_features |-> acc.rm_features]
         [] tag = "replace" ->
              [diff_lines |-> Append(acc.diff_lines,
                    <<"Replace old feature", i1 + 1, "with new feature", j1 + 1>>),
               add_features |-> acc.add_features \o Slice(head, j1, j2),
               rm_features |-> acc.rm_features \o Slice(base, i1, i2)]
         [] OTHER -> acc

RECURSIVE ClassifyFrom(_, _, _, _, _)
ClassifyFrom(ops, p, base, head, acc) ==
    IF p > Len(ops) THEN acc
    ELSE ClassifyFrom(ops, p + 1, base, head, ClassifyOne(ops[p], base, head, acc))

NoLines == [diff_lines |-> <<>>, add_features |-> <<>>, rm_features |-> <<>>]

Classified(ops, base, head) == ClassifyFrom(sorted(ops), 1, base, head, NoLines)

---------------------------------------------------------------------------
(* combined_bboxes and draw_geometry *)

\* combined_bboxes: zip(*[]) yields nothing, so the 4-way unpacking of line 158
\* raises ValueError for an empty list
combined_bboxes(features) ==
    IF features = <<>>
    THEN [ok |-> FALSE, bbox |-> <<>>]
    ELSE LET boxes == {features[k].geometry.bbox : k \in DOMAIN features}
             least(c) == CHOOSE v \in {x[c] : x \in boxes} : \A x \in boxes : v <= x[c]
             most(c) == CHOOSE v \in {x[c] : x \in boxes} : \A x \in boxes : v >= x[c]
         IN [ok |-> TRUE, bbox |-> <<least(1), most(2), least(3), most(4)>>]

\* the concatenation of a sequence of sequences
RECURSIVE Flatten(_)
Flatten(ss) ==
    IF Len(ss) = 0 THEN <<>>
    ELSE IF Len(ss) = 1 THEN ss[1]
    ELSE LET h == Len(ss) \div 2
         IN Flatten(SubSeq(ss, 1, h)) \o Flatten(SubSeq(ss, h + 1, Len(ss)))

\* draw_geometry: the cairo fill() and stroke() calls, each with the source
\* colour set before it; the op "raise" stands for the ValueError of line 210
draw_geometry(feature, fill_rgb, stroke_rgb) ==
    LET g == feature.geometry
        fill == [op |-> "fill", rgb |-> fill_rgb]
        stroke == [op |-> "stroke", rgb |-> stroke_rgb]
    IN CASE g.type = "MultiPolygon" ->
              Flatten([k \in DOMAIN g.coordinates |->
                          <<fill>> \o [l \in DOMAIN g.coordinates[k] |-> stroke]])
         [] g.type = "Polygon" -> <<fill>> \o [k \in DOMAIN g.coordinates |-> stroke]
         [] g.type = "MultiLineString" -> [k \in DOMAIN g.coordinates |-> stroke]
         [] g.type = "LineString" -> <<stroke>>
         [] g.type \in {"MultiPoint", "Point"} -> <<fill>>
         [] OTHER -> <<[op |-> "raise", rgb |-> <<>>]>>

\* colours of lines 280 and 283, in tenths
AddFill == <<3, 10, 10>>
AddStroke == <<0, 3, 10>>
RmFill == <<10, 5, 5>>
RmStroke == <<9, 0, 0>>

\* one for loop of lines 279-283 over features[lo..hi]
RECURSIVE DrawAll(_, _, _, _, _)
DrawAll(features, lo, hi, fill_rgb, stroke_rgb) ==
    IF lo > hi THEN <<>>
    ELSE IF lo = hi THEN draw_geometry(features[lo], fill_rgb, stroke_rgb)
    ELSE LET mid == (lo + hi) \div 2
         IN DrawAll(features, lo, mid, fill_rgb, stroke_rgb)
            \o DrawAll(features, mid + 1, hi, fill_rgb, stroke_rgb)

\* the two for loops of lines 279-283
RenderOps(add, rm) ==
    DrawAll(add, 1, Len(add), AddFill, AddStroke)
    \o DrawAll(rm, 1, Len(rm), RmFill, RmStroke)

---------------------------------------------------------------------------
(* __main__ *)

Crash(e) == pc' = "crashed" /\ err' = e

Init ==
    /\ nstems \in 0..MaxStems
    /\ idx = 0
    /\ pc = "loop"
    /\ err = "none"
    /\ shp_common = FALSE
    /\ tempdir = 0
    /\ fs = <<>>
    /\ base_shp_path = 0
    /\ head_shp_path = 0
    /\ opened = 0
    /\ base_data = <<>>
    /\ head_data = <<>>
    /\ opcodes = <<>>
    /\ diff_lines = <<>>
    /\ add_features = <<>>
    /\ rm_features = <<>>
    /\ svg = <<>>
    /\ comment_lines = <<>>

\* lines 217-224: the next stem, its two file listings, a fresh temp directory
NextStem ==
    /\ pc = "loop"
    /\ idx < nstems
    /\ idx' = idx + 1
    /\ shp_common' \in BOOLEAN
    /\ tempdir' = idx + 1
    /\ opened' = 0
    /\ fs' = (idx + 1 :> <<>>) @@ fs
    /\ pc' = "download"
    /\ UNCHANGED <<nstems, err, base_shp_path, head_shp_path, base_data,
                   head_data, opcodes, diff_lines, add_features, rm_features, svg,
                   comment_lines>>

\* lines 226-245: every common file is written into tempdir; the two path
\* names are bound only in the iteration for the ".shp" file
Download ==
    /\ pc = "download"
    /\ IF shp_common
       THEN \E base_raw \in SeqsUpTo(AllRaw, MaxLen), head_raw \in SeqsUpTo(AllRaw, MaxLen) :
               /\ fs' = [fs EXCEPT ![tempdir] =
                            ("base.shp" :> base_raw) @@ ("head.shp" :> head_raw)]
               /\ base_shp_path' = tempdir
               /\ head_shp_path' = tempdir
       ELSE UNCHANGED <<fs, base_shp_path, head_shp_path>>
    /\ pc' = "load"
    /\ UNCHANGED <<nstems, idx, err, shp_common, tempdir, opened, base_data,
                   head_data, opcodes, diff_lines, add_features, rm_features, svg,
                   comment_lines>>

\* lines 232, 241: requests.get raises (no handler anywhere in the script)
DownloadFails ==
    /\ pc = "download"
    /\ shp_common
    /\ Crash("ConnectionError")
    /\ UNCHANGED <<nstems, idx, shp_common, tempdir, fs, base_shp_path,
                   head_shp_path, opened, base_data, head_data, opcodes, diff_lines,
                   add_features, rm_features, svg, comment_lines>>

\* load_features(path) as called at lines 247-248: an unbound name raises
\* NameError, a path in a removed directory cannot be opened (ogr.Open gives
\* no dataset), an unknown geometry type raises ValueError
LoadPath(path, name) ==
    IF path = 0 THEN [status |-> "NameError", features |-> <<>>]
    ELSE IF path \notin DOMAIN fs \/ name \notin DOMAIN fs[path]
    THEN [status |-> "OpenError", features |-> <<>>]
    ELSE LET r == load_features(fs[path][name])
         IN IF r.ok THEN [status |-> "ok", features |-> r.features]
            ELSE [status |-> "ValueError: Unknown geometry type", features |-> <<>>]

\* lines 247-248
Load ==
    /\ pc = "load"
    /\ LET b == LoadPath(base_shp_path, "base.shp")
           h == LoadPath(head_shp_path, "head.shp")
       IN IF b.status # "ok"
          THEN Crash(b.status) /\ UNCHANGED <<base_data, head_data>>
          ELSE IF h.status # "ok"
          THEN Crash(h.status) /\ base_data' = b.features /\ UNCHANGED head_data
          ELSE /\ base_data' = b.features
               /\ head_data' = h.features
               /\ pc' = "align"
               /\ UNCHANGED err
    /\ opened' = IF base_shp_path = 0 THEN opened ELSE base_shp_path
    /\ UNCHANGED <<nstems, idx, shp_common, tempdir, fs, base_shp_path,
                   head_shp_path, opcodes, diff_lines, add_features, rm_features,
                   svg, comment_lines>>

\* lines 249-253: the matcher, the three empty lists, matcher.get_opcodes()
Align ==
    /\ pc = "align"
    /\ opcodes' = get_opcodes(base_data, head_data)
    /\ diff_lines' = <<>>
    /\ add_features' = <<>>
    /\ rm_features' = <<>>
    /\ pc' = "classify"
    /\ UNCHANGED <<nstems, idx, err, shp_common, tempdir, fs, base_shp_path,
                   head_shp_path, opened, base_data, head_data, svg, comment_lines>>

\* lines 253-267: the for loop over sorted(opcodes)
Classify ==
    /\ pc = "classify"
    /\ LET r == Classified(opcodes, base_data, head_data)
       IN /\ diff_lines' = r.diff_lines
          /\ add_features' = r.add_features
          /\ rm_features' = r.rm_features
    /\ pc' = "bbox"
    /\ UNCHANGED <<nstems, idx, err, shp_common, tempdir, fs, base_shp_path,
                   head_shp_path, opened, base_data, head_data, opcodes, svg,
                   comment_lines>>

\* line 269
Bbox ==
    /\ pc = "bbox"
    /\ IF combined_bboxes(add_features \o rm_features).ok
       THEN pc' = "render" /\ UNCHANGED err
       ELSE Crash("ValueError: not enough values to unpack")
    /\ UNCHANGED <<nstems, idx, shp_common, tempdir, fs, base_shp_path,
                   head_shp_path, opened, base_data, head_data, opcodes, diff_lines,
                   add_features, rm_features, svg, comment_lines>>

\* lines 271-283: <stem>.svg; draw_geometry raises for a feature whose geometry
\* type it does not know
Render ==
    /\ pc = "render"
    /\ IF \E f \in Range(add_features) \cup Range(rm_features) :
             f.geometry.type \notin GeometryTypes
       THEN Crash("ValueError: geometry type") /\ UNCHANGED svg
       ELSE /\ svg' = (idx :> RenderOps(add_features, rm_features)) @@ svg
            /\ pc' = "finish"
            /\ UNCHANGED err
    /\ UNCHANGED <<nstems, idx, shp_common, tempdir, fs, base_shp_path,
                   head_shp_path, opened, base_data, head_data, opcodes, diff_lines,
                   add_features, rm_features, comment_lines>>

\* lines 285-288: the comment lines of the stem, shutil.rmtree(tempdir)
Finish ==
    /\ pc = "finish"
    /\ comment_lines' =
          IF diff_lines # <<>>
          THEN comment_lines \o << <<"###", idx>>, <<>> >> \o diff_lines \o << <<>> >>
          ELSE comment_lines
    /\ fs' = [d \in DOMAIN fs \ {tempdir} |-> fs[d]]
    /\ pc' = "loop"
    /\ UNCHANGED <<nstems, idx, err, shp_common, tempdir, base_shp_path,
                   head_shp_path, opened, base_data, head_data, opcodes, diff_lines,
                   add_features, rm_features, svg>>

\* line 290
Exit ==
    /\ pc = "loop"
    /\ idx = nstems
    /\ pc' = "exited"
    /\ UNCHANGED <<nstems, idx, err, shp_common, tempdir, fs, base_shp_path,
                   head_shp_path, opened, base_data, head_data, opcodes, diff_lines,
                   add_features, rm_features, svg, comment_lines>>

Next ==
    \/ NextStem
    \/ Download
    \/ DownloadFails
    \/ Load
    \/ Align
    \/ Classify
    \/ Bbox
    \/ Render
    \/ Finish
    \/ Exit

Spec == Init /\ [][Next]_vars

---------------------------------------------------------------------------
(* One dataset, from the state after load_features (line 248) on: the      *)
(* inputs of the aligner are drawn from every pair of feature lists of up  *)
(* to AlignLen supported features, and heads of BigLen copies of one.      *)

AlignInputs == SeqsUpTo(SupportedRaw, AlignLen)
BulkInputs == {Repeat(r, BigLen) : r \in SupportedRaw}

InitAligner ==
    /\ nstems = 1
    /\ idx = 1
    /\ pc = "align"
    /\ err = "none"
    /\ shp_common = TRUE
    /\ tempdir = 1
    /\ \E base_raw \in AlignInputs, head_raw \in AlignInputs \cup BulkInputs :
          /\ fs = (1 :> (("base.shp" :> base_raw) @@ ("head.shp" :> head_raw)))
          /\ base_data = load_features(base_raw).features
          /\ head_data = load_features(head_raw).features
    /\ base_shp_path = 1
    /\ head_shp_path = 1
    /\ opened = 1
    /\ opcodes = <<>>
    /\ diff_lines = <<>>
    /\ add_features = <<>>
    /\ rm_features = <<>>
    /\ svg = <<>>
    /\ comment_lines = <<>>

NextAligner ==
    \/ Align
    \/ Classify
    \/ Bbox
    \/ Render
    \/ Finish
    \/ Exit

SpecAligner == InitAligner /\ [][NextAligner]_vars

---------------------------------------------------------------------------
(* Properties *)

\* opcodes holds matcher.get_opcodes() of the current base_data and head_data
Aligned == pc \in {"classify", "bbox", "render", "finish"}

\* the for loop of lines 253-267 is over for the current stem
ClassifiedNow == pc \in {"bbox", "render", "finish"}

Tiles(ops, n, m) ==
    /\ ops = <<>> => n = 0 /\ m = 0
    /\ ops # <<>> =>
          /\ ops[1][2] = 0
          /\ ops[1][4] = 0
          /\ ops[Len(ops)][3] = n
          /\ ops[Len(ops)][5] = m
    /\ \A p \in 1..(Len(ops) - 1) :
          ops[p + 1][2] = ops[p][3] /\ ops[p + 1][4] = ops[p][5]
    /\ \A p \in DOMAIN ops : ops[p][2] <= ops[p][3] /\ ops[p][4] <= ops[p][5]

\* C1: the opcode list of the aligner tiles both sequences: the first opcode
\* starts at (0, 0), each opcode starts where the previous one ended, the last
\* one ends at (n, m), and i1 <= i2, j1 <= j2 in every opcode.
C1_OpcodesTile ==
    Aligned => Tiles(opcodes, Len(base_data), Len(head_data))

C1_Witness ==
    /\ pc = "classify"
    /\ Len(opcodes) >= 4
    /\ \E p \in DOMAIN opcodes : opcodes[p][1] = "delete"
    /\ \E p \in DOMAIN opcodes : opcodes[p][1] = "insert"

NoDeleteNextToInsert(ops) ==
    \A p \in 1..(Len(ops) - 1) :
        /\ ~(ops[p][1] = "delete" /\ ops[p + 1][1] = "insert")
        /\ ~(ops[p][1] = "insert" /\ ops[p + 1][1] = "delete")

\* C2: a delete opcode is never immediately followed by an insert opcode, nor
\* an insert by a delete, in the aligner's list and in the sorted list the
\* classifier walks; every gap between matched runs is one opcode (no two
\* opcodes other than "equal" are neighbours): a replace covering both ranges
\* when the gap has features on both sides, a delete or an insert when it has
\* features on one side only.
C2_GapIsOneReplace ==
    Aligned =>
        /\ NoDeleteNextToInsert(opcodes)
        /\ NoDeleteNextToInsert(sorted(opcodes))
        /\ \A p \in 1..(Len(opcodes) - 1) :
              opcodes[p][1] = "equal" \/ opcodes[p + 1][1] = "equal"
        /\ \A p \in DOMAIN opcodes :
              LET op == opcodes[p] IN
              /\ op[1] \in {"equal", "replace", "delete", "insert"}
              /\ op[1] = "replace" => (op[2] < op[3] /\ op[4] < op[5])
              /\ op[1] = "delete" => (op[2] < op[3] /\ op[4] = op[5])
              /\ op[1] = "insert" => (op[2] = op[3] /\ op[4] < op[5])

C2_Witness ==
    /\ pc = "classify"
    /\ \E p \in 2..(Len(opcodes) - 1) :
          /\ opcodes[p - 1][1] = "equal"
          /\ opcodes[p][1] = "replace"
          /\ opcodes[p + 1][1] = "equal"

RECURSIVE RunTotal(_, _, _)
RunTotal(ops, p, tag) ==
    IF p > Len(ops) THEN 0
    ELSE (IF ops[p][1] = tag THEN (ops[p][3] - ops[p][2]) + (ops[p][5] - ops[p][4]) ELSE 0)
         + RunTotal(ops, p + 1, tag)

LinesOf(text) == {p \in DOMAIN diff_lines : diff_lines[p][1] = text}

\* C3: every delete opcode over [i1,i2) yields one Deleted record per index
\* (i2-i1 records with the 1-based base positions i1+1..i2), every insert
\* opcode over [j1,j2) one Inserted record per index, so the numbers of
\* Deleted and Inserted records equal the numbers of features in delete and
\* insert runs.
C3_OneRecordPerFeature ==
    ClassifiedNow =>
        /\ \A p \in DOMAIN opcodes :
              /\ opcodes[p][1] = "delete" =>
                    \A i \in (opcodes[p][2] + 1)..opcodes[p][3] :
                        \E q \in LinesOf("Delete old feature") : diff_lines[q][2] = i
              /\ opcodes[p][1] = "insert" =>
                    \A j \in (opcodes[p][4] + 1)..opcodes[p][5] :
                        \E q \in LinesOf("Add new feature") : diff_lines[q][2] = j
        /\ Cardinality(LinesOf("Delete old feature")) = RunTotal(opcodes, 1, "delete")
        /\ Cardinality(LinesOf("Add new feature")) = RunTotal(opcodes, 1, "insert")

\* the opcodes in ascending order of (i1, j1)
RECURSIVE ByPosition(_)
ByPosition(S) ==
    IF S = {} THEN <<>>
    ELSE LET m == CHOOSE x \in S : \A y \in S \ {x} :
                      TupleLess(<<x[2], x[4]>>, <<y[2], y[4]>>, 1)
         IN <<m>> \o ByPosition(S \ {m})

\* C4: the change records appear in ascending order of the (i1, j1) of the
\* opcodes they come from, whatever the tags: diff_lines is what walking the
\* opcodes in ascending (i1, j1) order appends.
C4_RecordsInPositionOrder ==
    ClassifiedNow =>
        diff_lines = ClassifyFrom(ByPosition(Range(opcodes)), 1, base_data, head_data,
                                  NoLines).diff_lines

\* C5: when a feature of one stem has an unsupported geometry kind, every
\* other stem of the batch is still rendered.
C5_OtherStemsStillProcessed ==
    (pc = "crashed" /\ err = "ValueError: Unknown geometry type") =>
        \A s \in (1..nstems) \ {idx} : s \in DOMAIN svg

\* C6: no execution ends with a temporary directory that was never removed.
C6_TempdirsReleased ==
    pc \in {"crashed", "exited"} => DOMAIN fs = {}

\* C7: the path handed to load_features for a stem is a file downloaded into
\* that stem's own temporary directory, never one left from an earlier stem.
C7_LoadsOwnFiles ==
    opened \in {0, tempdir}

IsAddOp(o) == o.rgb \in {AddFill, AddStroke}
IsRmOp(o) == o.rgb \in {RmFill, RmStroke}

\* C8: in every rendered image all draw operations for removed features
\* precede every draw operation for an added feature.
C8_RemovedDrawnBeforeAdded ==
    \A s \in DOMAIN svg :
        \A p, q \in DOMAIN svg[s] :
            (IsRmOp(svg[s][p]) /\ IsAddOp(svg[s][q])) => p < q

\* length of the common run of a[i:ahi] and b[j:bhi]
RECURSIVE RunFrom(_, _, _, _, _, _)
RunFrom(a, b, i, j, ahi, bhi) ==
    IF i < ahi /\ j < bhi /\ a[i + 1] = b[j + 1]
    THEN 1 + RunFrom(a, b, i + 1, j + 1, ahi, bhi)
    ELSE 0

\* the longest matching block of a[alo:ahi] and b[blo:bhi], every element
\* counting: the lowest base start, then the lowest head start
RefLongest(a, b, alo, ahi, blo, bhi) ==
    LET starts == (alo..(ahi - 1)) \X (blo..(bhi - 1))
        run == [s \in starts |-> RunFrom(a, b, s[1], s[2], ahi, bhi)]
        kmax == IF starts = {} THEN 0
                ELSE CHOOSE k \in Range(run) : \A l \in Range(run) : k >= l
        longest == {s \in starts : run[s] = kmax}
        i == CHOOSE x \in {s[1] : s \in longest} : \A s \in longest : x <= s[1]
        j == CHOOSE y \in {s[2] : s \in {r \in longest : r[1] = i}} :
                \A s \in {r \in longest : r[1] = i} : y <= s[2]
    IN IF kmax = 0 THEN <<alo, blo, 0>> ELSE <<i, j, kmax>>

RECURSIVE RefBlocks(_, _, _, _, _, _)
RefBlocks(a, b, alo, ahi, blo, bhi) ==
    LET x == RefLongest(a, b, alo, ahi, blo, bhi)
    IN IF x[3] = 0 THEN <<>>
       ELSE (IF alo < x[1] /\ blo < x[2]
             THEN RefBlocks(a, b, alo, x[1], blo, x[2]) ELSE <<>>)
            \o <<x>>
            \o (IF x[1] + x[3] < ahi /\ x[2] + x[3] < bhi
                THEN RefBlocks(a, b, x[1] + x[3], ahi, x[2] + x[3], bhi) ELSE <<>>)

RefOpcodes(a, b) ==
    LET blocks == RefBlocks(a, b, 0, Len(a), 0, Len(b))
    IN OpcodesFrom(Append(Collapse(blocks, 1, <<0, 0, 0>>, <<>>), <<Len(a), Len(b), 0>>),
                   1, 0, 0)

\* C9: the opcode list equals that of the reference aligner: recursive
\* longest-matching-block selection with no element left out, ties broken by
\* the lowest base index, then the lowest head index.
C9_MatchesReferenceAligner ==
    Aligned => opcodes = RefOpcodes(base_data, head_data)

\* C10: once both feature lists of a stem are loaded, the bounding box, render
\* and cleanup steps raise no error, also when the lists do not differ.
C10_BboxRenderCleanupComplete ==
    pc = "crashed" =>
        err \notin {"ValueError: not enough values to unpack", "ValueError: geometry type"}

=============================================================================
